---- MODULE Spec2Model ----
(***************************************************************************)
(* Model of backend/services/up2you_runner.py (JobManager), with the parts *)
(* of backend/config.py, backend/models.py and backend/routes.py it uses.  *)
(*                                                                         *)
(* Threads: one caller per create_job call, the supervisor thread that     *)
(* call starts (_run_job), and readers that call get_status and then read  *)
(* the returned JobStatus object outside the lock (routes.get_job hands    *)
(* the object to the response serializer).  JobStatus objects live on a    *)
(* heap (status); the dictionary _jobs maps an identifier to a reference.  *)
(***************************************************************************)
EXTENDS Integers, Sequences, FiniteSets, TLC

\* ---------------------------------------------------------------- bounds
MaxJobs == 2
MaxReaders == 1
MaxClock == 2

Calls == 1..MaxJobs
\* uuid4 values; one more than the calls, so that one is never handed out
JobIds == 1..(MaxJobs + 1)
Readers == 1..MaxReaders
Times == 0..MaxClock

\* ---------------------------------------------------------------- values
None == <<>>
Some(v) == <<v>>
IsSome(o) == o # <<>>
Val(o) == o[1]

\* models.JobState
QUEUED == "queued"
RUNNING == "running"
SUCCEEDED == "succeeded"
FAILED == "failed"
JobState == {QUEUED, RUNNING, SUCCEEDED, FAILED}
Terminal == {SUCCEEDED, FAILED}

\* A path string is a sequence of tokens: the separator "/" and names ("."
\* and ".." are names).  pathlib.Path(s) keeps the root and the names other
\* than "."; empty names (doubled or trailing separators) disappear.  A
\* string that starts with exactly two separators keeps both (POSIX).
PathRoot(s) ==
    IF Len(s) = 0 \/ s[1] # "/" THEN <<>>
    ELSE IF Len(s) >= 2 /\ s[2] = "/" /\ ~(Len(s) >= 3 /\ s[3] = "/")
         THEN <<"/", "/">>
         ELSE <<"/">>

IsName(t) == t # "/" /\ t # "."

Path(s) == [root |-> PathRoot(s), parts |-> SelectSeq(s, IsName)]

\* str(path)
RECURSIVE Joined(_)
Joined(parts) ==
    IF Len(parts) = 0 THEN <<>>
    ELSE IF Len(parts) = 1 THEN parts
    ELSE <<parts[1], "/">> \o Joined(Tail(parts))

str(path) ==
    IF path.root = <<>> /\ path.parts = <<>> THEN <<".">>
    ELSE path.root \o Joined(path.parts)

is_absolute(path) == path.root # <<>>

\* path / other
Div(path, other) ==
    IF is_absolute(other) THEN other
    ELSE [root |-> path.root, parts |-> path.parts \o other.parts]

\* config.Settings
up2you_repo_path == Path(<<"/", "opt", "/", "UP2You">>)
python_executable == "python"
default_inference_script == <<"inference_low_gpu.py">>
default_base_model_path == "stabilityai/stable-diffusion-2-1-base"
default_segment_model_name == "ZhengPeng7/BiRefNet"

resolve_path_NoRoot(value) == Path(value)
resolve_path(value) ==
    LET candidate == Path(value)
    IN  IF is_absolute(candidate) THEN candidate
        ELSE Div(up2you_repo_path, candidate)

inference_script_path_Default(script_name) ==
    resolve_path(default_inference_script)
inference_script_path(script_name) ==
    resolve_path(IF IsSome(script_name) /\ Val(script_name) # <<>>
                 THEN Val(script_name)
                 ELSE default_inference_script)

\* models.JobRequest; the requests the callers submit
JobRequest(dd, od, bm, sm, is, ea) ==
    [data_dir |-> dd, output_dir |-> od, base_model_path |-> bm,
     segment_model_name |-> sm, inference_script |-> is, extra_args |-> ea]

Payloads ==
    << JobRequest(<<"photos">>, <<"out">>, None, None, None, <<>>),
       JobRequest(<<"/", "data">>, <<"/", "srv", "/", "out">>, Some("my/model"),
                  None, None, <<"--x", "1">>) >>

\* the request submitted by the k-th caller
RequestOf(k) == Payloads[((k - 1) % Len(Payloads)) + 1]

\* An element of the argument vector is a plain string (s) or the string of
\* a path (p), kept as its tokens
_build_command(payload) ==
    LET script_path == inference_script_path(payload.inference_script)
        base_model == IF IsSome(payload.base_model_path)
                         /\ Val(payload.base_model_path) # ""
                      THEN Val(payload.base_model_path)
                      ELSE default_base_model_path
        segment_model == IF IsSome(payload.segment_model_name)
                            /\ Val(payload.segment_model_name) # ""
                         THEN Val(payload.segment_model_name)
                         ELSE default_segment_model_name
    IN  <<[s |-> python_executable], [p |-> str(script_path)],
          [s |-> "--data_dir"], [p |-> str(resolve_path(payload.data_dir))],
          [s |-> "--output_dir"], [p |-> str(resolve_path(payload.output_dir))],
          [s |-> "--base_model_path"], [s |-> base_model],
          [s |-> "--segment_model_name"], [s |-> segment_model]>>
        \o [i \in 1..Len(payload.extra_args) |-> [s |-> payload.extra_args[i]]]

\* models.JobStatus
JobStatus(id, st, cmd, created) ==
    [job_id |-> id, state |-> st, command |-> cmd, created_at |-> created,
     started_at |-> None, completed_at |-> None, exit_code |-> None,
     log_path |-> None, message |-> None]

\* models.JobCreatedResponse
JobCreatedResponse(id, st, cmd, created) ==
    [job_id |-> id, state |-> st, command |-> cmd, created_at |-> created]

\* outcomes of the operating system
ExitCodes == {0, 1, -9}
SpawnErrors == {"FileNotFoundError"}

VARIABLES
    now,        \* datetime.utcnow()
    jobs,       \* JobManager._jobs: identifier -> reference (a call), 0 if absent
    lock,       \* JobManager._lock: its owner, or <<>> when free
    status,     \* heap of JobStatus objects, one allocated per create_job call
    cpc,        \* create_job: position of each caller
    clocal,     \* create_job: job_id, payload, command, created_at
    ack,        \* create_job: the response returned
    spc,        \* _run_job: position of each supervisor thread
    slocal,     \* _run_job: start_time, log_path, exit_code, message, finished_at
    logfile,    \* the log file handle of each supervisor
    proc,       \* the external process of each supervisor, the argument vector
                \* given to Popen and the number of Popen calls made
    rpc,        \* get_status caller: position
    rlocal,     \* get_status caller: job_id asked, result
    obs         \* get_status caller: what it last read from the returned object

vars == <<now, jobs, lock, status, cpc, clocal, ack, spc, slocal, logfile,
          proc, rpc, rlocal, obs>>

NoLocal == [job_id |-> 0, payload |-> None, command |-> <<>>, created_at |-> 0]
NoSLocal == [start_time |-> 0, log_path |-> None, exit_code |-> None,
             message |-> None, finished_at |-> 0, exc |-> None]

Init ==
    /\ now = 0
    /\ jobs = [i \in JobIds |-> 0]
    /\ lock = <<>>
    /\ status = [k \in Calls |-> None]
    /\ cpc = [k \in Calls |-> "idle"]
    /\ clocal = [k \in Calls |-> NoLocal]
    /\ ack = [k \in Calls |-> None]
    /\ spc = [k \in Calls |-> "idle"]
    /\ slocal = [k \in Calls |-> NoSLocal]
    /\ logfile = [k \in Calls |-> "none"]
    /\ proc = [k \in Calls |-> [st |-> "none", code |-> 0, argv |-> <<>>,
                                 spawns |-> 0]]
    /\ rpc = [r \in Readers |-> "idle"]
    /\ rlocal = [r \in Readers |-> [job_id |-> 0, result |-> None]]
    /\ obs = [r \in Readers |-> None]

\* the clock is non-decreasing
Tick ==
    /\ now < MaxClock
    /\ now' = now + 1
    /\ UNCHANGED <<jobs, lock, status, cpc, clocal, ack, spc, slocal, logfile,
                   proc, rpc, rlocal, obs>>

\* ------------------------------------------------------------ create_job
\* lines 26-34: uuid4 (each call yields the next value of a sequence that
\* never repeats), _build_command, utcnow, and the JobStatus object
UsedIds == {clocal[k].job_id : k \in Calls} \ {0}
uuid4 == Cardinality(UsedIds) + 1

CreateBegin(k, payload, id) ==
    /\ cpc[k] = "idle"
    /\ clocal' = [clocal EXCEPT ![k] =
                    [job_id |-> id, payload |-> Some(payload),
                     command |-> _build_command(payload), created_at |-> now]]
    /\ status' = [status EXCEPT ![k] =
                    Some(JobStatus(id, QUEUED, _build_command(payload), now))]
    /\ cpc' = [cpc EXCEPT ![k] = "L35"]
    /\ UNCHANGED <<now, jobs, lock, ack, spc, slocal, logfile, proc, rpc,
                   rlocal, obs>>

\* line 35: with self._lock
CreateAcquire(k) ==
    /\ cpc[k] = "L35"
    /\ lock = <<>>
    /\ lock' = <<"create_job", k>>
    /\ cpc' = [cpc EXCEPT ![k] = "L36"]
    /\ UNCHANGED <<now, jobs, status, clocal, ack, spc, slocal, logfile, proc,
                   rpc, rlocal, obs>>

\* line 36 and the end of the with block
Insert(store, id, ref) == [store EXCEPT ![id] = ref]

CreateInsert(k) ==
    /\ cpc[k] = "L36"
    /\ jobs' = Insert(jobs, clocal[k].job_id, k)
    /\ lock' = <<>>
    /\ cpc' = [cpc EXCEPT ![k] = "L38"]
    /\ UNCHANGED <<now, status, clocal, ack, spc, slocal, logfile, proc, rpc,
                   rlocal, obs>>

\* lines 38-41: thread.start()
CreateStart(k) ==
    /\ cpc[k] = "L38"
    /\ spc' = [spc EXCEPT ![k] = "L83"]
    /\ cpc' = [cpc EXCEPT ![k] = "L43"]
    /\ UNCHANGED <<now, jobs, lock, status, clocal, ack, slocal, logfile, proc,
                   rpc, rlocal, obs>>

\* lines 43-48: the response reads status.state from the shared object
AckState(k) == Val(status[k]).state

CreateReturn(k) ==
    /\ cpc[k] = "L43"
    /\ ack' = [ack EXCEPT ![k] =
                 Some(JobCreatedResponse(clocal[k].job_id, AckState(k),
                                         clocal[k].command, clocal[k].created_at))]
    /\ cpc' = [cpc EXCEPT ![k] = "ret"]
    /\ UNCHANGED <<now, jobs, lock, status, clocal, spc, slocal, logfile, proc,
                   rpc, rlocal, obs>>

create_job(k) ==
    \/ CreateBegin(k, RequestOf(k), uuid4)
    \/ CreateAcquire(k)
    \/ CreateInsert(k)
    \/ CreateStart(k)
    \/ CreateReturn(k)

\* -------------------------------------------------------------- _run_job
\* the value of the lock while supervisor k is inside `with self._lock`
Me_NoLock(k) == <<>>
Me(k) == <<"_run_job", k>>

\* the object the supervisor's variable `status` refers to (lines 88, 111)
Ref_Last(k) ==
    LET ins == {i \in JobIds : jobs[i] # 0}
    IN  jobs[CHOOSE i \in ins : \A j \in ins : j <= i]
Ref(k) == jobs[clocal[k].job_id]
SetField_All(heap, ref, f, v) ==
    [o \in DOMAIN heap |->
        IF IsSome(heap[o]) THEN Some([Val(heap[o]) EXCEPT ![f] = v]) ELSE heap[o]]
SetField(heap, ref, f, v) == [heap EXCEPT ![ref] = Some([Val(@) EXCEPT ![f] = v])]

\* lines 83-84
RunBegin(k) ==
    /\ spc[k] = "L83"
    /\ slocal' = [slocal EXCEPT ![k].start_time = now,
                    ![k].log_path =
                        Some([dir |-> str(resolve_path(Val(clocal[k].payload).output_dir)),
                              file |-> clocal[k].job_id])]
    /\ spc' = [spc EXCEPT ![k] = "L85"]
    /\ UNCHANGED <<now, jobs, lock, status, cpc, clocal, ack, logfile, proc,
                   rpc, rlocal, obs>>

\* line 85: mkdir is outside the try block; when it raises, the exception
\* leaves _run_job and the thread ends
AfterMkdir_SkipRunning(ok) == IF ok THEN "L95" ELSE "raised"
AfterMkdir(ok) == IF ok THEN "L87" ELSE "raised"

Mkdir(k, ok) ==
    /\ spc[k] = "L85"
    /\ spc' = [spc EXCEPT ![k] = AfterMkdir(ok)]
    /\ UNCHANGED <<now, jobs, lock, status, cpc, clocal, ack, slocal, logfile,
                   proc, rpc, rlocal, obs>>

\* lines 87-88
RunningAcquire(k) ==
    /\ spc[k] = "L87"
    /\ lock = <<>>
    /\ lock' = Me(k)
    /\ spc' = [spc EXCEPT ![k] = "L89"]
    /\ UNCHANGED <<now, jobs, status, cpc, clocal, ack, slocal, logfile, proc,
                   rpc, rlocal, obs>>

\* line 89
SetRunning(k) ==
    /\ spc[k] = "L89"
    /\ status' = SetField(status, Ref(k), "state", RUNNING)
    /\ spc' = [spc EXCEPT ![k] = "L90"]
    /\ UNCHANGED <<now, jobs, lock, cpc, clocal, ack, slocal, logfile, proc,
                   rpc, rlocal, obs>>

\* line 90
SetStartedAt(k) ==
    /\ spc[k] = "L90"
    /\ status' = SetField(status, Ref(k), "started_at", Some(slocal[k].start_time))
    /\ spc' = [spc EXCEPT ![k] = "L91"]
    /\ UNCHANGED <<now, jobs, lock, cpc, clocal, ack, slocal, logfile, proc,
                   rpc, rlocal, obs>>

\* line 91
SetLogPath(k) ==
    /\ spc[k] = "L91"
    /\ status' = SetField(status, Ref(k), "log_path", slocal[k].log_path)
    /\ spc' = [spc EXCEPT ![k] = "L92"]
    /\ UNCHANGED <<now, jobs, lock, cpc, clocal, ack, slocal, logfile, proc,
                   rpc, rlocal, obs>>

\* line 92 and the end of the with block
RunningRelease_KeepLock(k) ==
    /\ spc[k] = "L92"
    /\ jobs' = Insert(jobs, clocal[k].job_id, Ref(k))
    /\ spc' = [spc EXCEPT ![k] = "L95"]
    /\ UNCHANGED <<now, lock, status, cpc, clocal, ack, slocal, logfile, proc,
                   rpc, rlocal, obs>>

RunningRelease(k) ==
    /\ spc[k] = "L92"
    /\ jobs' = Insert(jobs, clocal[k].job_id, Ref(k))
    /\ lock' = <<>>
    /\ spc' = [spc EXCEPT ![k] = "L95"]
    /\ UNCHANGED <<now, status, cpc, clocal, ack, slocal, logfile, proc, rpc,
                   rlocal, obs>>

\* line 95: log_path.open("w")
OpenLog(k, ok) ==
    /\ spc[k] = "L95"
    /\ IF ok
       THEN /\ logfile' = [logfile EXCEPT ![k] = "open"]
            /\ spc' = [spc EXCEPT ![k] = "L96"]
            /\ UNCHANGED slocal
       ELSE /\ slocal' = [slocal EXCEPT ![k].exc = Some("PermissionError")]
            /\ spc' = [spc EXCEPT ![k] = "L103"]
            /\ UNCHANGED logfile
    /\ UNCHANGED <<now, jobs, lock, status, cpc, clocal, ack, proc, rpc,
                   rlocal, obs>>

\* lines 96-101: subprocess.Popen; when it raises, the with block closes the log
Popen(k, ok, err) ==
    /\ spc[k] = "L96"
    /\ IF ok
       THEN /\ proc' = [proc EXCEPT ![k].st = "running",
                                     ![k].argv = clocal[k].command,
                                     ![k].spawns = @ + 1]
            /\ spc' = [spc EXCEPT ![k] = "L102"]
            /\ UNCHANGED <<slocal, logfile>>
       ELSE /\ proc' = [proc EXCEPT ![k].argv = clocal[k].command,
                                     ![k].spawns = @ + 1]
            /\ slocal' = [slocal EXCEPT ![k].exc = Some(err)]
            /\ logfile' = [logfile EXCEPT ![k] = "closed"]
            /\ spc' = [spc EXCEPT ![k] = "L103"]
    /\ UNCHANGED <<now, jobs, lock, status, cpc, clocal, ack, rpc, rlocal, obs>>

\* the external process terminates with a return code (a process whose
\* supervisor has stopped waiting is not followed further)
ProcExit(k, c) ==
    /\ spc[k] = "L102"
    /\ proc[k].st = "running"
    /\ proc' = [proc EXCEPT ![k].st = "exited", ![k].code = c]
    /\ UNCHANGED <<now, jobs, lock, status, cpc, clocal, ack, spc, slocal,
                   logfile, rpc, rlocal, obs>>

\* line 102: process.wait() returns once the process has terminated; the with
\* block then closes the log
Wait(k) ==
    /\ spc[k] = "L102"
    /\ proc[k].st = "exited"
    /\ slocal' = [slocal EXCEPT ![k].exit_code = Some(proc[k].code)]
    /\ logfile' = [logfile EXCEPT ![k] = "closed"]
    /\ spc' = [spc EXCEPT ![k] = "L107"]
    /\ UNCHANGED <<now, jobs, lock, status, cpc, clocal, ack, proc, rpc,
                   rlocal, obs>>

\* line 102: process.wait() raises while the process is running
WaitRaises_Leak(k) ==
    /\ spc[k] = "L102"
    /\ proc[k].st = "running"
    /\ slocal' = [slocal EXCEPT ![k].exc = Some("OSError")]
    /\ spc' = [spc EXCEPT ![k] = "L103"]
    /\ UNCHANGED <<now, jobs, lock, status, cpc, clocal, ack, logfile, proc,
                   rpc, rlocal, obs>>

WaitRaises(k) ==
    /\ spc[k] = "L102"
    /\ proc[k].st = "running"
    /\ slocal' = [slocal EXCEPT ![k].exc = Some("OSError")]
    /\ logfile' = [logfile EXCEPT ![k] = "closed"]
    /\ spc' = [spc EXCEPT ![k] = "L103"]
    /\ UNCHANGED <<now, jobs, lock, status, cpc, clocal, ack, proc, rpc,
                   rlocal, obs>>

\* A message is its fixed text and the value formatted into it, if any
Message(text, arg) == [text |-> text, arg |-> arg]
CrashMessage(exc) == Message("Job crashed with error: ", Some(exc))
ExitMessage(exit_code) ==
    IF exit_code = 0 THEN Message("Job finished successfully", None)
                     ELSE Message("Job failed", None)

\* lines 103-105, then line 109
Except_Retry(k) ==
    /\ spc[k] = "L103"
    /\ spc' = [spc EXCEPT ![k] = "L95"]
    /\ UNCHANGED <<now, jobs, lock, status, cpc, clocal, ack, slocal, logfile,
                   proc, rpc, rlocal, obs>>

Except(k) ==
    /\ spc[k] = "L103"
    /\ slocal' = [slocal EXCEPT ![k].exit_code = Some(-1),
                    ![k].message = Some(CrashMessage(Val(slocal[k].exc))),
                    ![k].finished_at = now]
    /\ spc' = [spc EXCEPT ![k] = "L110"]
    /\ UNCHANGED <<now, jobs, lock, status, cpc, clocal, ack, logfile, proc,
                   rpc, rlocal, obs>>

\* lines 106-107, then line 109
Else(k) ==
    /\ spc[k] = "L107"
    /\ slocal' = [slocal EXCEPT ![k].message =
                    Some(ExitMessage(Val(slocal[k].exit_code))),
                    ![k].finished_at = now]
    /\ spc' = [spc EXCEPT ![k] = "L110"]
    /\ UNCHANGED <<now, jobs, lock, status, cpc, clocal, ack, logfile, proc,
                   rpc, rlocal, obs>>

\* lines 110-111
FinalAcquire(k) ==
    /\ spc[k] = "L110"
    /\ lock = <<>>
    /\ lock' = Me(k)
    /\ spc' = [spc EXCEPT ![k] = "L112"]
    /\ UNCHANGED <<now, jobs, status, cpc, clocal, ack, slocal, logfile, proc,
                   rpc, rlocal, obs>>

\* line 112
Classify_NonNegative(exit_code) == IF exit_code >= 0 THEN SUCCEEDED ELSE FAILED
Classify(exit_code) == IF exit_code = 0 THEN SUCCEEDED ELSE FAILED

SetTerminal(k) ==
    /\ spc[k] = "L112"
    /\ status' = SetField(status, Ref(k), "state",
                          Classify(Val(slocal[k].exit_code)))
    /\ spc' = [spc EXCEPT ![k] = "L113"]
    /\ UNCHANGED <<now, jobs, lock, cpc, clocal, ack, slocal, logfile, proc,
                   rpc, rlocal, obs>>

\* line 113
SetCompletedAt_Created(k) ==
    /\ spc[k] = "L113"
    /\ status' = SetField(status, Ref(k), "completed_at",
                          Some(Val(status[Ref(k)]).created_at))
    /\ spc' = [spc EXCEPT ![k] = "L114"]
    /\ UNCHANGED <<now, jobs, lock, cpc, clocal, ack, slocal, logfile, proc,
                   rpc, rlocal, obs>>

SetCompletedAt(k) ==
    /\ spc[k] = "L113"
    /\ status' = SetField(status, Ref(k), "completed_at",
                          Some(slocal[k].finished_at))
    /\ spc' = [spc EXCEPT ![k] = "L114"]
    /\ UNCHANGED <<now, jobs, lock, cpc, clocal, ack, slocal, logfile, proc,
                   rpc, rlocal, obs>>

\* line 114
SetExitCode(k) ==
    /\ spc[k] = "L114"
    /\ status' = SetField(status, Ref(k), "exit_code", slocal[k].exit_code)
    /\ spc' = [spc EXCEPT ![k] = "L115"]
    /\ UNCHANGED <<now, jobs, lock, cpc, clocal, ack, slocal, logfile, proc,
                   rpc, rlocal, obs>>

\* line 115
SetMessage(k) ==
    /\ spc[k] = "L115"
    /\ status' = SetField(status, Ref(k), "message", slocal[k].message)
    /\ spc' = [spc EXCEPT ![k] = "L116"]
    /\ UNCHANGED <<now, jobs, lock, cpc, clocal, ack, slocal, logfile, proc,
                   rpc, rlocal, obs>>

\* line 116 and the end of the with block; the thread ends
FinalRelease_Evict(k) ==
    /\ spc[k] = "L116"
    /\ jobs' = [jobs EXCEPT ![clocal[k].job_id] = 0]
    /\ lock' = <<>>
    /\ spc' = [spc EXCEPT ![k] = "done"]
    /\ UNCHANGED <<now, status, cpc, clocal, ack, slocal, logfile, proc, rpc,
                   rlocal, obs>>

FinalRelease(k) ==
    /\ spc[k] = "L116"
    /\ jobs' = Insert(jobs, clocal[k].job_id, Ref(k))
    /\ lock' = <<>>
    /\ spc' = [spc EXCEPT ![k] = "done"]
    /\ UNCHANGED <<now, status, cpc, clocal, ack, slocal, logfile, proc, rpc,
                   rlocal, obs>>

_run_job(k) ==
    \/ RunBegin(k)
    \/ \E ok \in BOOLEAN : Mkdir(k, ok)
    \/ RunningAcquire(k)
    \/ SetRunning(k)
    \/ SetStartedAt(k)
    \/ SetLogPath(k)
    \/ RunningRelease(k)
    \/ \E ok \in BOOLEAN : OpenLog(k, ok)
    \/ \E ok \in BOOLEAN, err \in SpawnErrors : Popen(k, ok, err)
    \/ Wait(k)
    \/ WaitRaises(k)
    \/ Except(k)
    \/ Else(k)
    \/ FinalAcquire(k)
    \/ SetTerminal(k)
    \/ SetCompletedAt(k)
    \/ SetExitCode(k)
    \/ SetMessage(k)
    \/ FinalRelease(k)

\* ------------------------------------------------- get_status, routes.get_job
\* An identifier is a uuid4 string: a caller knows one only from the response
\* of create_job; UnknownId stands for any other string
UnknownId == MaxJobs + 1
Returned == {Val(ack[k]).job_id : k \in {c \in Calls : IsSome(ack[c])}}

\* routes.get_job is entered with job_id
GetBegin(r, id) ==
    /\ rpc[r] = "idle"
    /\ id \in Returned \cup {UnknownId}
    /\ rlocal' = [rlocal EXCEPT ![r].job_id = id]
    /\ rpc' = [rpc EXCEPT ![r] = "L53"]
    /\ UNCHANGED <<now, jobs, lock, status, cpc, clocal, ack, spc, slocal,
                   logfile, proc, obs>>

\* line 53
GetAcquire(r) ==
    /\ rpc[r] = "L53"
    /\ lock = <<>>
    /\ lock' = <<"get_status", r>>
    /\ rpc' = [rpc EXCEPT ![r] = "L54"]
    /\ UNCHANGED <<now, jobs, status, cpc, clocal, ack, spc, slocal, logfile,
                   proc, rlocal, obs>>

\* line 54: dict.get gives the stored reference itself, or None
Get_Missing(store, id) == None
Get(store, id) == IF store[id] = 0 THEN None ELSE Some(store[id])

GetReturn(r) ==
    /\ rpc[r] = "L54"
    /\ rlocal' = [rlocal EXCEPT ![r].result = Get(jobs, rlocal[r].job_id)]
    /\ lock' = <<>>
    /\ rpc' = [rpc EXCEPT ![r] = "ret"]
    /\ UNCHANGED <<now, jobs, status, cpc, clocal, ack, spc, slocal, logfile,
                   proc, obs>>

\* routes.get_job, lines 34-39: None becomes HTTP 404; otherwise the object is
\* returned and its fields are read for the response, outside the lock
Deref(heap, ref) == Val(heap[ref])

Read(r) ==
    /\ rpc[r] = "ret"
    /\ IsSome(rlocal[r].result)
    /\ obs' = [obs EXCEPT ![r] = Some(Deref(status, Val(rlocal[r].result)))]
    /\ UNCHANGED <<now, jobs, lock, status, cpc, clocal, ack, spc, slocal,
                   logfile, proc, rpc, rlocal>>

NotFound(r) ==
    /\ rpc[r] = "ret"
    /\ ~IsSome(rlocal[r].result)
    /\ rpc' = [rpc EXCEPT ![r] = "404"]
    /\ UNCHANGED <<now, jobs, lock, status, cpc, clocal, ack, spc, slocal,
                   logfile, proc, rlocal, obs>>

get_status(r) ==
    \/ \E id \in JobIds : GetBegin(r, id)
    \/ GetAcquire(r)
    \/ GetReturn(r)
    \/ Read(r)
    \/ NotFound(r)

Next ==
    \/ \E k \in Calls : create_job(k)
    \/ \E k \in Calls : _run_job(k)
    \/ \E k \in Calls, c \in ExitCodes : ProcExit(k, c)
    \/ \E r \in Readers : get_status(r)

\* In Spec every step falls within one reading of the clock (now stays 0);
\* no step of a thread depends on the value of a timestamp.
Spec == Init /\ [][Next]_vars

\* one job, its caller and its supervisor, with a clock that advances between
\* their steps
NextClock ==
    \/ Tick
    \/ create_job(1)
    \/ _run_job(1)
    \/ \E c \in ExitCodes : ProcExit(1, c)
SpecClock == Init /\ [][NextClock]_vars

\* _build_command on its own: create_job lines 26-34 applied to any request
\* of a bounded set
RawPaths ==
    { <<"photos">>, <<"/", "data">>, <<"/", "data", "/">>, <<".", "/", "out">>,
      <<"out", "/", "/", "x">>, <<>> }
ModelNames == {None, Some(""), Some("my/model")}
ScriptNames == {None, Some(<<>>), Some(<<"custom.py">>)}
ExtraArgs == {<<>>, <<"--x", "1">>}
Requests ==
    { JobRequest(dd, od, bm, sm, is, ea) :
        dd \in RawPaths, od \in RawPaths, bm \in ModelNames,
        sm \in ModelNames, is \in ScriptNames, ea \in ExtraArgs }

NextBuild == \E payload \in Requests : CreateBegin(1, payload, uuid4)
SpecBuild == Init /\ [][NextBuild]_vars

\* ================================================================ claims
Record(k) == Val(status[k])
\* the caller whose create_job generated identifier id
CallOf(id) == CHOOSE k \in Calls : clocal[k].job_id = id

\* C1: the response of every create_job call carries state = Queued, with the
\* job's id, command and created_at, whatever the supervisor thread has done
\* by then.
C1_AckQueued ==
    \A k \in Calls : IsSome(ack[k]) =>
        /\ Val(ack[k]).state = QUEUED
        /\ Val(ack[k]).job_id = clocal[k].job_id
        /\ Val(ack[k]).command = clocal[k].command
        /\ Val(ack[k]).created_at = clocal[k].created_at

\* C2 (as stated): a get_status call for an identifier that create_job has
\* returned yields a record whose state is Queued at the moment it is returned.
GetReturns(r) == rpc[r] = "L54" /\ rpc'[r] = "ret"

C2_QueuedAfterSubmit ==
    [][\A r \in Readers :
         (GetReturns(r) /\ rlocal[r].job_id \in Returned) =>
            /\ IsSome(rlocal'[r].result)
            /\ Deref(status', Val(rlocal'[r].result)).state = QUEUED]_vars

\* C2 (amended): such a call yields the job's own record, never not-found; the
\* record's state is Queued exactly when the supervisor has not yet made its
\* Running transition, Running exactly when it has made that one only, and
\* terminal exactly when the supervisor has finished.
BeforeRunning == {"L83", "L85", "L87", "raised"}
BeforeTerminal == {"L95", "L96", "L102", "L103", "L107", "L110"}

C2_ReturnsCurrentRecord ==
    [][\A r \in Readers :
         (GetReturns(r) /\ rlocal[r].job_id \in Returned) =>
            LET k == CallOf(rlocal[r].job_id)
                rec == Deref(status', k)
            IN  /\ rlocal'[r].result = Some(k)
                /\ rec.job_id = rlocal[r].job_id
                /\ rec.state = QUEUED <=> spc[k] \in BeforeRunning
                /\ rec.state = RUNNING <=> spc[k] \in BeforeTerminal
                /\ rec.state \in Terminal <=> spc[k] = "done"]_vars

\* C2 witness: get_status has returned a record that is no longer Queued, for
\* an identifier create_job had returned.
C2_Witness ==
    \E r \in Readers :
        /\ rpc[r] = "ret"
        /\ rlocal[r].job_id \in Returned
        /\ rlocal[r].result = Some(CallOf(rlocal[r].job_id))
        /\ Record(Val(rlocal[r].result)).state = RUNNING

\* C3: every submitted job ends with a terminal record.  Stated on the finished
\* supervisor: once the supervisor thread of a job has ended, on whatever path
\* (log directory, log file, spawn or wait failing included), the job's record
\* has state Succeeded or Failed.
ThreadEnded(k) == spc[k] \in {"done", "raised"}

C3_TerminalWhenEnded ==
    \A k \in Calls : ThreadEnded(k) => Record(k).state \in Terminal

\* C4: the state of a record starts at Queued and each step leaves it
\* unchanged, moves it from Queued to Running, or from Running to Succeeded or
\* Failed; it never moves backwards and never goes from Queued to a terminal
\* state.
C4_StateStep(k) ==
    IF IsSome(status[k])
    THEN /\ IsSome(status'[k])
         /\ \/ Record(k).state = Val(status'[k]).state
            \/ Record(k).state = QUEUED /\ Val(status'[k]).state = RUNNING
            \/ Record(k).state = RUNNING /\ Val(status'[k]).state \in Terminal
    ELSE IsSome(status'[k]) => Val(status'[k]).state = QUEUED

C4_Monotonic == [][\A k \in Calls : C4_StateStep(k)]_vars

\* C4 witness: two jobs have gone through the whole sequence, one to Succeeded
\* and one to Failed.
C4_Witness ==
    \E k1, k2 \in Calls :
        /\ spc[k1] = "done" /\ Record(k1).state = SUCCEEDED
        /\ spc[k2] = "done" /\ Record(k2).state = FAILED

\* what a get_status caller holds after the call has returned a record
Holds(r) == rpc[r] = "ret" /\ IsSome(rlocal[r].result)

\* C5: a record returned by get_status is a snapshot: the field values a
\* caller has read from it are the values it still has, whatever the
\* supervisor does afterwards.
C5_Snapshot ==
    \A r \in Readers :
        (Holds(r) /\ IsSome(obs[r])) =>
            Deref(status, Val(rlocal[r].result)) = Val(obs[r])

\* C6: what a caller reads from a record obtained from get_status is never
\* partially updated: Running comes with started_at and log_path, a terminal
\* state with completed_at, exit_code and message.
Complete(rec) ==
    /\ rec.state = RUNNING => IsSome(rec.started_at) /\ IsSome(rec.log_path)
    /\ rec.state \in Terminal =>
          /\ IsSome(rec.completed_at)
          /\ IsSome(rec.exit_code)
          /\ IsSome(rec.message)

C6_NoPartialRead ==
    \A r \in Readers : IsSome(obs[r]) => Complete(Val(obs[r]))

\* C7: whenever no thread holds the store lock, every stored record has an
\* exit_code exactly when its state is Succeeded or Failed.
Stored == {jobs[i] : i \in JobIds} \ {0}

C7_ExitCodeIffTerminal ==
    lock = <<>> =>
        \A k \in Stored :
            IsSome(Record(k).exit_code) <=> Record(k).state \in Terminal

\* C7 witness: with the lock free, one stored record is terminal and has its
\* exit_code while another is Running and has none.
C7_Witness ==
    /\ lock = <<>>
    /\ \E k1, k2 \in Stored :
        /\ Record(k1).state \in Terminal /\ IsSome(Record(k1).exit_code)
        /\ Record(k2).state = RUNNING /\ ~IsSome(Record(k2).exit_code)

\* the record of call k and its entry in the store are the same after the step
Untouched(k) ==
    /\ status'[k] = status[k]
    /\ \A i \in JobIds : jobs[i] = k => jobs'[i] = k

Includes(m, v) == m.arg = Some(v)
\* process k was spawned, terminated, and its supervisor has finished
Exited(k) == spc[k] = "done" /\ proc[k].st = "exited"

\* C9 (as stated): a process that terminates with code c gives exit_code = c,
\* Succeeded with a success message when c = 0, and otherwise Failed with a
\* failure message that includes c.
C9_OutcomeWithCodeInMessage ==
    \A k \in Calls : Exited(k) =>
        LET c == proc[k].code
            rec == Record(k)
        IN  /\ rec.exit_code = Some(c)
            /\ c = 0 => /\ rec.state = SUCCEEDED
                        /\ Val(rec.message).text = "Job finished successfully"
            /\ c # 0 => /\ rec.state = FAILED
                        /\ Val(rec.message).text = "Job failed"
                        /\ Includes(Val(rec.message), c)

\* C9 (amended): a process that terminates with code c gives exit_code = c,
\* Succeeded with the message "Job finished successfully" when c = 0, and
\* otherwise Failed with the fixed message "Job failed", which does not
\* include c.
C9_Outcome ==
    \A k \in Calls : Exited(k) =>
        LET c == proc[k].code
            rec == Record(k)
        IN  /\ rec.exit_code = Some(c)
            /\ c = 0 => /\ rec.state = SUCCEEDED
                        /\ rec.message = Some(Message("Job finished successfully", None))
            /\ c # 0 => /\ rec.state = FAILED
                        /\ rec.message = Some(Message("Job failed", None))
                        /\ ~Includes(Val(rec.message), c)

\* C9 witness: one process has exited with 0 and another with a code other
\* than 0, and both supervisors have finished.
C9_Witness ==
    \E k1, k2 \in Calls :
        /\ Exited(k1) /\ proc[k1].code = 0
        /\ Exited(k2) /\ proc[k2].code # 0

\* an error occurred while supervising job k: mkdir raised (the thread ended
\* at line 85), or open, Popen or wait raised
Errored(k) == spc[k] = "raised" \/ IsSome(slocal[k].exc)

\* C10: when anything fails during supervision, the error is caught and the
\* record is finalized Failed with exit_code -1 and a non-empty message.
C10_ErrorsRecorded ==
    \A k \in Calls : (ThreadEnded(k) /\ Errored(k)) =>
        /\ Record(k).state = FAILED
        /\ Record(k).exit_code = Some(-1)
        /\ IsSome(Record(k).message)
        /\ Val(Record(k).message).text # ""

\* what the supervisor of job k has to record once it has finished: the
\* process's own return code, or -1 when open, Popen or wait raised
OwnOutcome(k) == IF proc[k].st = "exited" THEN proc[k].code ELSE -1

\* a step taken by the caller or the supervisor of job k
StepOf(k) == cpc'[k] # cpc[k] \/ spc'[k] # spc[k] \/ proc'[k] # proc[k]

\* C11: jobs submitted concurrently get distinct identifiers; once a job's
\* supervisor has finished, the record's exit_code and state are those of its
\* own process outcome, in whatever order the processes ended; and a step of
\* one job's caller or supervisor (the create_job insert included) leaves the
\* record and the store entry of every other job unchanged.
C11_Independent ==
    [][/\ \A k1, k2 \in Calls :
            (k1 # k2 /\ clocal'[k1].job_id # 0 /\ clocal'[k2].job_id # 0)
                => clocal'[k1].job_id # clocal'[k2].job_id
       /\ \A k \in Calls : spc'[k] = "done" =>
            /\ Val(status'[k]).exit_code = Some(OwnOutcome(k)')
            /\ Val(status'[k]).state =
                 (IF OwnOutcome(k)' = 0 THEN SUCCEEDED ELSE FAILED)
       /\ \A k, j \in Calls :
            (k # j /\ StepOf(k) /\ ~StepOf(j)) =>
                /\ status'[j] = status[j]
                /\ \A i \in JobIds : jobs[i] = j => jobs'[i] = j]_vars

\* C11 witness: two jobs with different identifiers have finished, the one
\* whose identifier was generated first exiting 1 and ending Failed, the
\* other exiting 0 and ending Succeeded.
C11_Witness ==
    \E k1, k2 \in Calls :
        /\ clocal[k1].job_id = 1 /\ clocal[k2].job_id = 2
        /\ Exited(k1) /\ proc[k1].code = 1 /\ Record(k1).state = FAILED
        /\ Exited(k2) /\ proc[k2].code = 0 /\ Record(k2).state = SUCCEEDED

\* positions of _run_job outside the two with self._lock blocks: mkdir, open,
\* Popen, wait and the except/else clauses
OutsideLock == {"L83", "L85", "L87", "L95", "L96", "L102", "L103", "L107", "L110"}

\* C12: a supervisor does not hold the store lock while it creates the
\* directory, opens the log, spawns or waits for the process; whenever some
\* process is still running, the lock is free or its holder can take its next
\* step at once, so that create_job and get_status never wait for a process to
\* terminate.
HolderCanStep ==
    /\ \A k \in Calls : lock = Me(k) => ENABLED _run_job(k)
    /\ \A k \in Calls : lock = <<"create_job", k>> => ENABLED CreateInsert(k)
    /\ \A r \in Readers : lock = <<"get_status", r>> => ENABLED GetReturn(r)

C12_LockNotHeldWhileBlocked ==
    /\ \A k \in Calls : spc[k] \in OutsideLock => lock # Me(k)
    /\ (\E k \in Calls : proc[k].st = "running") =>
          /\ \A j \in Calls : lock = Me(j) => spc[j] \notin OutsideLock
          /\ HolderCanStep

\* C12 witness: while the process of one job is running and its supervisor
\* waits for it, a get_status caller holds the lock.
C12_Witness ==
    \E k \in Calls, r \in Readers :
        /\ spc[k] = "L102" /\ proc[k].st = "running"
        /\ lock = <<"get_status", r>>

\* a step of get_status caller r
ReaderStep(r) == rpc'[r] # rpc[r] \/ obs'[r] # obs[r]

\* C13: get_status for an identifier that create_job never returned yields
\* None, which routes.get_job turns into HTTP 404 and nothing else; for an
\* identifier that create_job has returned it yields the job's record, however
\* late the call is made; and no step of a get_status caller changes the store
\* or a record.
C13_NotFoundIffUnknown ==
    [][\A r \in Readers :
         /\ GetReturns(r) =>
              IF rlocal[r].job_id \in Returned
              THEN rlocal'[r].result = Some(CallOf(rlocal[r].job_id))
              ELSE rlocal'[r].result = None
         /\ (rpc[r] = "ret" /\ rpc'[r] # "ret") =>
              (rlocal[r].result = None /\ rpc'[r] = "404")
         /\ ReaderStep(r) => (jobs' = jobs /\ status' = status)]_vars

\* C13 witness: a query for an unknown identifier has ended in 404 while the
\* store holds a record whose supervisor has finished.
C13_Witness ==
    \E r \in Readers, k \in Calls :
        /\ rpc[r] = "404" /\ rlocal[r].job_id \notin Returned
        /\ spc[k] = "done" /\ k \in Stored

\* ---- the argument vector, as the claims describe it
Built(k) == cpc[k] = "L35"
Input(k) == Val(clocal[k].payload)
RootString == <<"/", "opt", "/", "UP2You">>
\* an override counts as given when it is neither None nor empty
Given(o, empty) == IsSome(o) /\ Val(o) # empty
Chosen(o, empty, default) == IF Given(o, empty) THEN Val(o) ELSE default
Flags(payload, script, dd, od, bm, sm) ==
    <<[s |-> python_executable], [p |-> script],
      [s |-> "--data_dir"], [p |-> dd], [s |-> "--output_dir"], [p |-> od],
      [s |-> "--base_model_path"], [s |-> bm],
      [s |-> "--segment_model_name"], [s |-> sm]>>
    \o [i \in 1..Len(payload.extra_args) |-> [s |-> payload.extra_args[i]]]

\* resolved(p) as stated: p itself when absolute, root/p otherwise
ResolvedAsIs(p) ==
    IF Len(p) > 0 /\ p[1] = "/" THEN p ELSE RootString \o <<"/">> \o p

\* resolved(p) with the string put in normal form: "." names, doubled and
\* trailing separators dropped
Names(p) == SelectSeq(p, LAMBDA t : t \notin {"/", "."})
Interleaved(names) ==
    [i \in 1..(2 * Len(names) - 1) |->
        IF i % 2 = 1 THEN names[(i + 1) \div 2] ELSE "/"]
ResolvedNormal(p) ==
    IF Len(p) > 0 /\ p[1] = "/" THEN <<"/">> \o Interleaved(Names(p))
    ELSE IF Names(p) = <<>> THEN RootString
    ELSE RootString \o <<"/">> \o Interleaved(Names(p))

Used(o, slot, default) == slot = (IF IsSome(o) THEN Val(o) ELSE default)

C15_OverrideWhenNotNone ==
    \A k \in Calls : Built(k) =>
        /\ Used(Input(k).base_model_path, clocal[k].command[8].s,
                default_base_model_path)
        /\ Used(Input(k).segment_model_name, clocal[k].command[10].s,
                default_segment_model_name)
        /\ clocal[k].command[2].p =
              ResolvedNormal(IF IsSome(Input(k).inference_script)
                             THEN Val(Input(k).inference_script)
                             ELSE default_inference_script)

\* C15 (amended): each of the three overrides, when it is a non-empty string,
\* is the value used in the vector; the default is used when the override is
\* None or the empty string.
UsedIfGiven(o, empty, slot, default) ==
    /\ Given(o, empty) => slot = Val(o)
    /\ ~Given(o, empty) => slot = default

C15_OverrideWhenNonEmpty ==
    \A k \in Calls : Built(k) =>
        /\ UsedIfGiven(Input(k).base_model_path, "", clocal[k].command[8].s,
                       default_base_model_path)
        /\ UsedIfGiven(Input(k).segment_model_name, "",
                       clocal[k].command[10].s, default_segment_model_name)
        /\ Given(Input(k).inference_script, <<>>) =>
              clocal[k].command[2].p =
                  ResolvedNormal(Val(Input(k).inference_script))
        /\ ~Given(Input(k).inference_script, <<>>) =>
              clocal[k].command[2].p = ResolvedNormal(default_inference_script)

\* C15 witness: a vector was built from a request with an empty base-model
\* override, a non-empty segmentation-model override and no script override.
C15_Witness ==
    \E k \in Calls :
        /\ Built(k)
        /\ Input(k).base_model_path = Some("")
        /\ Input(k).segment_model_name = Some("my/model")
        /\ Input(k).inference_script = None
        /\ clocal[k].command[8].s = default_base_model_path
        /\ clocal[k].command[10].s = "my/model"

\* C16: with a clock that never goes back, created_at <= started_at and
\* started_at <= completed_at on every record, whenever both are set.
Ordered(rec) ==
    /\ IsSome(rec.started_at) => rec.created_at <= Val(rec.started_at)
    /\ IsSome(rec.completed_at) => rec.created_at <= Val(rec.completed_at)
    /\ (IsSome(rec.started_at) /\ IsSome(rec.completed_at))
          => Val(rec.started_at) <= Val(rec.completed_at)

C16_TimestampsOrdered ==
    \A k \in Calls : IsSome(status[k]) => Ordered(Record(k))

\* C16 witness: a finished record whose three timestamps are all different.
C16_Witness ==
    \E k \in Calls :
        /\ spc[k] = "done"
        /\ Record(k).created_at < Val(Record(k).started_at)
        /\ Val(Record(k).started_at) < Val(Record(k).completed_at)

\* mkdir (line 85) has been called by the supervisor of job k
MkdirAttempted(k) == spc[k] \notin {"idle", "L83", "L85"}
\* log_path.open (line 95) has been called by the supervisor of job k
OpenAttempted(k) == spc[k] \notin {"idle", "L83", "L85", "raised", "L87", "L89",
                                   "L90", "L91", "L92", "L95"}
ProcessExists(k) == proc[k].st # "none"

\* C17 (as stated): the record is made Running before the log directory is
\* created and before the process is spawned: where mkdir has been attempted
\* or the process exists, the record's state is not Queued.
C17_RunningBeforeMkdir ==
    \A k \in Calls :
        (MkdirAttempted(k) \/ ProcessExists(k)) => Record(k).state # QUEUED

\* C17 (amended): the log directory is created first, while the record is
\* still Queued; the record is then made Running, with started_at and
\* log_path, before the log file is opened and before the process is spawned:
\* where the open has been attempted or the process exists, the record's
\* state is not Queued.
C17_RunningBeforeOpen ==
    \A k \in Calls :
        /\ spc[k] \in {"L85", "L87", "raised"} => Record(k).state = QUEUED
        /\ (OpenAttempted(k) \/ ProcessExists(k) \/ logfile[k] # "none") =>
              /\ Record(k).state # QUEUED
              /\ IsSome(Record(k).started_at)
              /\ IsSome(Record(k).log_path)

\* C17 witness: one supervisor has created its directory and not yet made its
\* record Running, while the process of another job is running.
C17_Witness ==
    \E k1, k2 \in Calls :
        /\ spc[k1] = "L87" /\ Record(k1).state = QUEUED
        /\ proc[k2].st = "running" /\ Record(k2).state = RUNNING

\* C18: the log file handle a supervisor opened is released on every path out
\* of the with block: once the supervisor is past it, and so wherever the
\* record is Succeeded or Failed, the handle is not open.
PastWith(k) == spc[k] \in {"L103", "L107", "L110", "L112", "L113", "L114",
                           "L115", "L116", "done"}

C18_LogClosed ==
    \A k \in Calls :
        /\ PastWith(k) => logfile[k] # "open"
        /\ (IsSome(status[k]) /\ Record(k).state \in Terminal)
              => logfile[k] # "open"

\* C18 witness: two ways out with the handle closed: one job is terminal
\* after wait raised, another after its process exited.
C18_Witness ==
    \E k1, k2 \in Calls :
        /\ spc[k1] = "done" /\ spc[k2] = "done"
        /\ Record(k1).state = FAILED /\ slocal[k1].exc = Some("OSError")
        /\ logfile[k1] = "closed"
        /\ Record(k2).state \in Terminal /\ proc[k2].st = "exited"
        /\ logfile[k2] = "closed"

\* C19: Popen is called at most once per job, whether it fails, or the process
\* exits with a code other than 0; the argument vector it is given is the
\* command of the job's record and of the response of create_job; and the
\* command and the job_id of a record never change once it exists.
C19_Step(k) ==
    /\ proc'[k].spawns <= 1
    /\ proc'[k].spawns = 1 =>
          /\ proc'[k].argv = Val(status'[k]).command
          /\ IsSome(ack'[k]) => proc'[k].argv = Val(ack'[k]).command
    /\ IsSome(ack'[k]) =>
          /\ Val(ack'[k]).command = Val(status'[k]).command
          /\ Val(ack'[k]).job_id = Val(status'[k]).job_id
    /\ IsSome(status[k]) =>
          /\ IsSome(status'[k])
          /\ Val(status'[k]).command = Record(k).command
          /\ Val(status'[k]).job_id = Record(k).job_id

C19_SpawnedOnceWithCommand == [][\A k \in Calls : C19_Step(k)]_vars

\* C19 witness: one supervisor has finished after Popen raised, another after
\* its process exited with a code other than 0, and each called Popen once.
C19_Witness ==
    \E k1, k2 \in Calls :
        /\ spc[k1] = "done" /\ slocal[k1].exc = Some("FileNotFoundError")
        /\ proc[k1].spawns = 1 /\ proc[k1].st = "none"
        /\ Exited(k2) /\ proc[k2].code # 0 /\ proc[k2].spawns = 1
        /\ proc[k2].argv = Record(k2).command /\ Len(proc[k2].argv) >= 10
====
